---- MODULE Spec2Model ----
(***************************************************************************)
(* DevSure: the GitHub repository analyzer (githubAnalyzer.js) modelled   *)
(* as a state machine.  One run of analyzeGitHubRepo is a sequence of     *)
(* steps separated by its awaits; the classifier (detectRepoType) and the *)
(* scoring engine (calculateScores) are also exercised on their own over  *)
(* wider input sets.                                                       *)
(***************************************************************************)
EXTENDS Integers, Sequences, FiniteSets, TLC

VARIABLES
  pc,              \* position of the run inside analyzeGitHubRepo
  pkg,             \* the manifest (parsed package.json) last read
  manifests,       \* packageJsonPaths still to be analysed by the loop
  repoDir,         \* TRUE while the cloned working copy exists on disk
  repoType,        \* result.repoType
  classified,      \* TRUE once detectRepoType has assigned result.repoType
  stack,           \* result.stack
  security,        \* result.security
  dependencies,    \* result.dependencies
  codeQuality,     \* result.codeQuality
  typescript,      \* result.typescript
  scores,          \* result.scores
  scoreDetails,    \* result.scoreDetails (the details list of security)
  analysisConfidence, \* result.analysisConfidence
  verdict,         \* result.verdict (its label)
  suggestions,     \* result.suggestions
  priorityActions, \* result.priorityActions
  success,         \* result.success
  error,           \* result.error
  isRunning,       \* jobRunner: isRunning
  pollTimer,       \* jobRunner: TRUE while pollTimer holds an interval
  currentJobs,     \* jobRunner: currentJobs
  pollCalls,       \* jobRunner: the calls of poll() in flight, by slot
  projects,        \* database: project.status by project id
  analysisResults  \* database: the analysisResult rows stored, by project id

analyzerVars == <<pc, pkg, manifests, repoDir, repoType, classified, stack,
                  security, dependencies, codeQuality, typescript, scores,
                  scoreDetails, analysisConfidence, verdict, suggestions,
                  priorityActions, success, error>>

runnerVars == <<isRunning, pollTimer, currentJobs, pollCalls, projects,
                analysisResults>>

vars == <<analyzerVars, runnerVars>>

-----------------------------------------------------------------------------
(* JavaScript strings.  An absent (undefined) field and the empty string   *)
(* are both falsy and behave alike under ?.includes, so both are "".       *)

Truthy(s) == s # ""

\* String.prototype.includes
Includes(hay, needle) ==
  \E i \in 1..(Len(hay) - Len(needle) + 1) :
     SubSeq(hay, i, i + Len(needle) - 1) = needle

UpperToLower ==
  [c \in {"A","B","C","D","E","F","G","H","I","J","K","L","M",
          "N","O","P","Q","R","S","T","U","V","W","X","Y","Z"} |->
     CASE c = "A" -> "a" [] c = "B" -> "b" [] c = "C" -> "c" [] c = "D" -> "d"
       [] c = "E" -> "e" [] c = "F" -> "f" [] c = "G" -> "g" [] c = "H" -> "h"
       [] c = "I" -> "i" [] c = "J" -> "j" [] c = "K" -> "k" [] c = "L" -> "l"
       [] c = "M" -> "m" [] c = "N" -> "n" [] c = "O" -> "o" [] c = "P" -> "p"
       [] c = "Q" -> "q" [] c = "R" -> "r" [] c = "S" -> "s" [] c = "T" -> "t"
       [] c = "U" -> "u" [] c = "V" -> "v" [] c = "W" -> "w" [] c = "X" -> "x"
       [] c = "Y" -> "y" [] c = "Z" -> "z"]

RECURSIVE toLowerCase(_)
\* String.prototype.toLowerCase
toLowerCase(s) ==
  IF s = "" THEN ""
  ELSE LET c == SubSeq(s, 1, 1)
       IN  (IF c \in DOMAIN UpperToLower THEN UpperToLower[c] ELSE c)
             \o toLowerCase(SubSeq(s, 2, Len(s)))

-----------------------------------------------------------------------------
(* IEEE-754 doubles.  A multiplier is the triple <<a, b, c>> of 20-bit     *)
(* limbs of the integer m with value m * 2^-53, m = a*2^40 + b*2^20 + c.   *)

Limb == 1048576

Double100 == <<8192, 0, 0>>            \* 1.0
Double085 == <<6963, 209715, 209715>>  \* 0.85 = 0x1.b333333333333p-1
Double070 == <<5734, 419430, 419430>>  \* 0.7  = 0x1.6666666666666p-1

RECURSIVE BitLen(_)
BitLen(n) == IF n = 0 THEN 0 ELSE 1 + BitLen(n \div 2)

RECURSIVE Pow2(_)
Pow2(n) == IF n = 0 THEN 1 ELSE 2 * Pow2(n - 1)

\* rawTotal * confidenceMultiplier: the exact product, rounded to the 53-bit
\* significand of a double (round to nearest, ties to even); limbs as above.
jsMultiply(r, m) ==
  LET c0 == r * m[3]
      b0 == r * m[2] + (c0 \div Limb)
      a0 == r * m[1] + (b0 \div Limb)
      B  == b0 % Limb
      C  == c0 % Limb
      d  == BitLen(a0) - 13            \* bits below the 53-bit significand
  IN  IF d <= 0 THEN <<a0, B, C>>
      ELSE LET unit == Pow2(d)
               rem  == C % unit
               odd  == (C \div unit) % 2 = 1
               up   == 2 * rem > unit \/ (2 * rem = unit /\ odd)
               c1   == C - rem + (IF up THEN unit ELSE 0)
               b1   == B + (c1 \div Limb)
           IN  <<a0 + (b1 \div Limb), b1 % Limb, c1 % Limb>>

\* Math.round of a non-negative double: floor(x + 0.5)
MathRound(x) == (x[1] + 4096) \div 8192

\* Math.min
Min(a, b) == IF a < b THEN a ELSE b

-----------------------------------------------------------------------------
(* Project classifier                                                       *)

frameworkKeywords ==
  {"express", "fastify", "koa", "hapi", "nest", "next", "nuxt", "gatsby"}

\* detectRepoType, the isLibrary conjunction
isLibraryPkg(p) ==
  /\ (Truthy(p.main) \/ Truthy(p.module) \/ Truthy(p.exports))
  /\ ~ Includes(p.scripts.start, "node server")
  /\ ~ Includes(p.scripts.start, "node app")
  /\ ~ Includes(p.scripts.start, "node src/index")
  /\ ~ Includes(p.scripts.start, "next")
  /\ ~ Includes(p.scripts.start, "react-scripts")
  /\ ~ Includes(p.scripts.dev, "next")
  /\ \/ Includes(p.scripts.build, "rollup")
     \/ Includes(p.scripts.build, "tsc")
     \/ Includes(p.scripts.build, "webpack")
     \/ Truthy(p.scripts.prepublish)
     \/ Truthy(p.scripts.prepublishOnly)

\* detectRepoType after the bin check: library / framework, monorepo, default
classifyWithoutBin(p) ==
  IF isLibraryPkg(p)
    THEN IF (\E kw \in frameworkKeywords : Includes(toLowerCase(p.name), kw))
            /\ Truthy(p.main)
           THEN "framework" ELSE "library"
    ELSE IF Truthy(p.workspaces) \/ Truthy(p.lpierna)
            \/ (p.private = TRUE /\ ~ Truthy(p.main))
           THEN "monorepo"
           ELSE "application"

\* detectRepoType with the bin check placed after the library check
detectRepoType_LibraryFirst(p) ==
  IF isLibraryPkg(p) THEN classifyWithoutBin(p)
  ELSE IF Truthy(p.bin) THEN "cli"
  ELSE classifyWithoutBin(p)

detectRepoType(p) ==
  IF Truthy(p.bin) THEN "cli" ELSE classifyWithoutBin(p)

isLibraryType(rt) == rt \in {"library", "framework", "cli"}

-----------------------------------------------------------------------------
(* Evidence records                                                         *)

Vulns(c, h, m, l) ==
  [critical |-> c, high |-> h, moderate |-> m, low |-> l, total |-> c + h + m + l]

NoVulns == Vulns(0, 0, 0, 0)

\* result.security.productionVulns before any production-only audit set it
Undefined == [undefined |-> TRUE]

\* productionVulns?.x || 0
OrZero(v) == IF v = Undefined THEN NoVulns ELSE v

\* the counts scored taken from all dependencies for every repo type
effectiveVulns_AllDependencies(rt, sec) == sec.vulnerabilities

effectiveVulns(rt, sec) ==
  IF isLibraryType(rt) THEN OrZero(sec.productionVulns) ELSE sec.vulnerabilities

Suggestion(p, c, t) == [priority |-> p, category |-> c, title |-> t]

-----------------------------------------------------------------------------
(* Scoring engine: calculateScores, category by category                    *)

SecurityMax == 30
CodeQualityMax == 25
TestingMax == 20
DependenciesMax == 10
HygieneMax == 10
MaxOverall == 95

\* security points before the hard caps
securityPoints(ev) ==
    (IF ev.critical = 0 THEN 10 ELSE 0)
  + (IF ev.high = 0 THEN 10 ELSE 0)
  + (IF ev.moderate = 0 THEN 5 ELSE 2)
  + (IF ev.total = 0 THEN 5 ELSE 0)

\* the security category without its hard caps
securityEarned_NoCap(rt, sec) ==
  IF sec.analyzed THEN securityPoints(effectiveVulns(rt, sec)) ELSE 5

securityEarned(rt, sec) ==
  LET ev == effectiveVulns(rt, sec)
  IN  IF sec.analyzed
        THEN IF ev.critical > 0 THEN Min(securityPoints(ev), 10)
             ELSE IF ev.high > 0 THEN Min(securityPoints(ev), 20)
             ELSE securityPoints(ev)
        ELSE 5

\* the devDependency note pushed to scores.security.details
securityDevNote(rt, sec) ==
  /\ sec.analyzed
  /\ isLibraryType(rt)
  /\ sec.vulnerabilities.total > 0
  /\ effectiveVulns(rt, sec).total = 0

\* the note on devDependency findings
DevDependencyNote(n) ==
  ToString(n) \o " vulnerabilities in devDependencies (not counted for libraries)"

\* scores.security.details as calculateScores fills it
securityDetails(rt, sec) ==
  LET ev == effectiveVulns(rt, sec)
  IN  IF sec.analyzed
        THEN (IF securityDevNote(rt, sec)
                THEN << DevDependencyNote(sec.vulnerabilities.total) >> ELSE << >>)
          \o (IF ev.critical = 0
                THEN << "No critical vulnerabilities (+10)" >>
                ELSE << ToString(ev.critical) \o " critical vulnerabilities (0)" >>)
          \o (IF ev.high = 0
                THEN << "No high vulnerabilities (+10)" >>
                ELSE << ToString(ev.high) \o " high vulnerabilities (0)" >>)
          \o (IF ev.moderate = 0
                THEN << "No moderate vulnerabilities (+5)" >>
                ELSE << ToString(ev.moderate) \o " moderate vulnerabilities (+2)" >>)
          \o (IF ev.total = 0 THEN << "Zero vulnerabilities (+5 bonus)" >> ELSE << >>)
        ELSE << "Security audit could not run (+5 base)" >>

\* codeQualityBase where a library with a lint configuration gets the flat
\* credit only when the lint run did not succeed
codeQualityBase_RubricForLibraries(rt, st, cq) ==
  IF isLibraryType(rt) /\ st.hasESLint /\ ~ cq.analyzed THEN 15
  ELSE IF cq.analyzed
    THEN (IF st.hasESLint THEN 5 ELSE 0) + 5
         + (IF cq.eslintErrors = 0 THEN 10
            ELSE IF cq.eslintErrors <= 5 THEN 5 ELSE 0)
         + (IF cq.eslintWarnings <= 10 THEN 5
            ELSE IF cq.eslintWarnings <= 25 THEN 2 ELSE 0)
  ELSE IF ~ st.hasESLint THEN 5
  ELSE 0

codeQualityBase(rt, st, cq) ==
  IF isLibraryType(rt) /\ st.hasESLint THEN 15
  ELSE IF cq.analyzed
    THEN (IF st.hasESLint THEN 5 ELSE 0) + 5
         + (IF cq.eslintErrors = 0 THEN 10
            ELSE IF cq.eslintErrors <= 5 THEN 5 ELSE 0)
         + (IF cq.eslintWarnings <= 10 THEN 5
            ELSE IF cq.eslintWarnings <= 25 THEN 2 ELSE 0)
  ELSE IF ~ st.hasESLint THEN 5
  ELSE 0

\* the TypeScript bonus added without Math.min
codeQualityEarned_NoClamp(rt, st, cq) ==
  codeQualityBase(rt, st, cq) + (IF st.hasTypeScript THEN 3 ELSE 0)

codeQualityEarned(rt, st, cq) ==
  IF st.hasTypeScript
    THEN Min(CodeQualityMax, codeQualityBase(rt, st, cq) + 3)
    ELSE codeQualityBase(rt, st, cq)

\* the testing category started from the value result.scores already holds
\* instead of from 0
testingEarned_Accumulating(st) ==
  LET prev == IF "testing" \in DOMAIN scores THEN scores.testing ELSE 0
      base == IF st.hasTests THEN 10 + 5 ELSE 0
  IN  Min(TestingMax, prev + (IF st.hasCICD THEN Min(TestingMax, base + 5) ELSE base))

testingEarned(st) ==
  LET base == IF st.hasTests THEN 10 + 5 ELSE 0
  IN  IF st.hasCICD THEN Min(TestingMax, base + 5) ELSE base

dependenciesEarned(rt, sec, deps) ==
  LET ev == effectiveVulns(rt, sec)
      outdated == deps.outdated
  IN  IF deps.analyzed
        THEN 2
             + (IF ev.total = 0 THEN 4
                ELSE IF ev.critical = 0 /\ ev.high = 0 THEN 2 ELSE 0)
             + (IF isLibraryType(rt)
                  THEN (IF outdated = 0 THEN 4
                        ELSE IF outdated <= 10 THEN 3 ELSE 2)
                  ELSE (IF outdated = 0 THEN 4
                        ELSE IF outdated <= 5 THEN 2 ELSE 0))
        ELSE 2

hygieneEarned(st) ==
    (IF st.hasReadme THEN 2 ELSE 0)
  + (IF st.hasLicense THEN 2 ELSE 0)
  + (IF st.hasEnvExample THEN 2 ELSE 0)
  + (IF st.hasCICD THEN 2 ELSE 0)
  + (IF st.hasProperStructure THEN 2 ELSE 0)

\* [a, b, c].filter(Boolean).length
checksRun(sec, cq, deps) ==
    (IF sec.analyzed THEN 1 ELSE 0)
  + (IF cq.analyzed THEN 1 ELSE 0)
  + (IF deps.analyzed THEN 1 ELSE 0)

\* confidence with the MEDIUM threshold at 30% coverage instead of 40%
confidenceOf_LowThreshold(n) ==
  IF n * 100 >= 80 * 3 THEN [label |-> "HIGH", multiplier |-> Double100]
  ELSE IF n * 100 >= 30 * 3 THEN [label |-> "MEDIUM", multiplier |-> Double085]
  ELSE [label |-> "LOW", multiplier |-> Double070]

\* coveragePercent = (checksRun / 3) * 100 against the 80 and 40 thresholds
confidenceOf(n) ==
  IF n * 100 >= 80 * 3 THEN [label |-> "HIGH", multiplier |-> Double100]
  ELSE IF n * 100 >= 40 * 3 THEN [label |-> "MEDIUM", multiplier |-> Double085]
  ELSE [label |-> "LOW", multiplier |-> Double070]

\* getVerdict with the security floor at 10 points instead of 15
getVerdict_LowFloor(sc, rt) ==
  IF isLibraryType(rt)
    THEN IF sc.security < 10 THEN "Security Issues"
         ELSE IF sc.overall < 40 THEN "Needs Attention"
         ELSE IF sc.overall < 55 THEN "Functional Library"
         ELSE IF sc.overall < 70 THEN "Good Library"
         ELSE IF sc.overall < 85 THEN "Production-Grade"
         ELSE "Excellent Library"
    ELSE IF sc.security < 10 THEN "Not Production Ready"
         ELSE IF sc.testing < 5 THEN "Not Interview Ready"
         ELSE IF sc.overall < 25 THEN "Beginner Level"
         ELSE IF sc.overall < 40 THEN "Needs Work"
         ELSE IF sc.overall < 55 THEN "Developing"
         ELSE IF sc.overall < 70 THEN "Acceptable"
         ELSE IF sc.overall < 85 THEN "Production Ready"
         ELSE "Excellent"

\* getVerdict with the 'Acceptable' / 'Good Library' band ending at 70
\* inclusive
getVerdict_WideBand(sc, rt) ==
  IF isLibraryType(rt)
    THEN IF sc.security < 15 THEN "Security Issues"
         ELSE IF sc.overall < 40 THEN "Needs Attention"
         ELSE IF sc.overall < 55 THEN "Functional Library"
         ELSE IF sc.overall <= 70 THEN "Good Library"
         ELSE IF sc.overall < 85 THEN "Production-Grade"
         ELSE "Excellent Library"
    ELSE IF sc.security < 15 THEN "Not Production Ready"
         ELSE IF sc.testing < 5 THEN "Not Interview Ready"
         ELSE IF sc.overall < 25 THEN "Beginner Level"
         ELSE IF sc.overall < 40 THEN "Needs Work"
         ELSE IF sc.overall < 55 THEN "Developing"
         ELSE IF sc.overall <= 70 THEN "Acceptable"
         ELSE IF sc.overall < 85 THEN "Production Ready"
         ELSE "Excellent"

\* getVerdict without the testing blocker of application-like types
getVerdict_NoTestingBlocker(sc, rt) ==
  IF isLibraryType(rt)
    THEN IF sc.security < 15 THEN "Security Issues"
         ELSE IF sc.overall < 40 THEN "Needs Attention"
         ELSE IF sc.overall < 55 THEN "Functional Library"
         ELSE IF sc.overall < 70 THEN "Good Library"
         ELSE IF sc.overall < 85 THEN "Production-Grade"
         ELSE "Excellent Library"
    ELSE IF sc.security < 15 THEN "Not Production Ready"
         ELSE IF sc.overall < 25 THEN "Beginner Level"
         ELSE IF sc.overall < 40 THEN "Needs Work"
         ELSE IF sc.overall < 55 THEN "Developing"
         ELSE IF sc.overall < 70 THEN "Acceptable"
         ELSE IF sc.overall < 85 THEN "Production Ready"
         ELSE "Excellent"

\* getVerdict, the label of the returned verdict
getVerdict(sc, rt) ==
  IF isLibraryType(rt)
    THEN IF sc.security < 15 THEN "Security Issues"
         ELSE IF sc.overall < 40 THEN "Needs Attention"
         ELSE IF sc.overall < 55 THEN "Functional Library"
         ELSE IF sc.overall < 70 THEN "Good Library"
         ELSE IF sc.overall < 85 THEN "Production-Grade"
         ELSE "Excellent Library"
    ELSE IF sc.security < 15 THEN "Not Production Ready"
         ELSE IF sc.testing < 5 THEN "Not Interview Ready"
         ELSE IF sc.overall < 25 THEN "Beginner Level"
         ELSE IF sc.overall < 40 THEN "Needs Work"
         ELSE IF sc.overall < 55 THEN "Developing"
         ELSE IF sc.overall < 70 THEN "Acceptable"
         ELSE IF sc.overall < 85 THEN "Production Ready"
         ELSE "Excellent"

\* result.scores as assigned at the end of calculateScores
finalScores(rt, st, sec, cq, deps) ==
  LET s1 == securityEarned(rt, sec)
      s2 == codeQualityEarned(rt, st, cq)
      s3 == testingEarned(st)
      s4 == dependenciesEarned(rt, sec, deps)
      s5 == hygieneEarned(st)
      rawTotal == s1 + s2 + s3 + s4 + s5
      conf == confidenceOf(checksRun(sec, cq, deps))
      adjustedTotal == MathRound(jsMultiply(rawTotal, conf.multiplier))
  IN  [security |-> s1, codeQuality |-> s2, testing |-> s3,
       dependencies |-> s4, hygiene |-> s5,
       overall |-> Min(MaxOverall, adjustedTotal),
       rawTotal |-> rawTotal,
       confidenceMultiplier |-> conf.multiplier,
       maxPossible |-> 95]

\* the suggestions calculateScores pushes, in the order it pushes them
scoreSuggestions(rt, st, sec, cq) ==
  LET ev == effectiveVulns(rt, sec)
      lib == isLibraryType(rt)
  IN  (IF sec.analyzed /\ ev.critical > 0
         THEN << Suggestion("critical", "security",
                   "Fix " \o ToString(ev.critical) \o " critical vulnerabilities") >>
       ELSE IF sec.analyzed /\ ev.high > 0
         THEN << Suggestion("high", "security",
                   "Fix " \o ToString(ev.high) \o " high severity vulnerabilities") >>
       ELSE << >>)
   \o (IF lib /\ st.hasESLint THEN << >>
       ELSE IF cq.analyzed
         THEN (IF cq.eslintErrors > 5 /\ ~ lib
                 THEN << Suggestion("high", "code-quality",
                           "Fix " \o ToString(cq.eslintErrors) \o " ESLint errors") >>
                 ELSE << >>)
       ELSE IF ~ st.hasESLint /\ ~ lib
         THEN << Suggestion("high", "code-quality", "Add ESLint for code quality") >>
       ELSE << >>)
   \o (IF ~ st.hasTests
         THEN << Suggestion("high", "testing", "Add automated tests") >>
         ELSE << >>)
   \o (IF ~ st.hasReadme
         THEN << Suggestion("medium", "hygiene", "Add a README") >>
         ELSE << >>)

-----------------------------------------------------------------------------
(* Recommendation synthesizer                                               *)

topicPatterns ==
  << [key |-> "eslint",     patterns |-> {"eslint", "linting", "code quality"}],
     [key |-> "typescript", patterns |-> {"typescript"}],
     [key |-> "tests",      patterns |-> {"test", "testing", "jest", "vitest"}],
     [key |-> "security",   patterns |-> {"vulnerabilit", "security", "audit"}],
     [key |-> "outdated",   patterns |-> {"outdated", "update", "packages can be updated"}] >>

TopicKeys == {topicPatterns[i].key : i \in 1..Len(topicPatterns)}

\* getTopic: the first group one of whose patterns the lowercased title
\* contains, else the lowercased title itself
getTopic(title) ==
  LET lower == toLowerCase(title)
      hits  == {i \in 1..Len(topicPatterns) :
                  \E pat \in topicPatterns[i].patterns : Includes(lower, pat)}
  IN  IF hits = {} THEN lower
      ELSE topicPatterns[CHOOSE i \in hits : \A j \in hits : i <= j].key

priorityOrder ==
  [p \in {"critical", "high", "medium", "low", "info"} |->
     CASE p = "critical" -> 0 [] p = "high" -> 1 [] p = "medium" -> 2
       [] p = "low" -> 3 [] p = "info" -> 4]

RECURSIVE dedupe(_, _, _)
\* the loop of deduplicateSuggestions: kept is dedupedSuggestions, topics[i]
\* the topic under which kept[i] is held in the seen map
dedupe(rest, kept, topics) ==
  IF rest = << >> THEN kept
  ELSE LET s     == Head(rest)
           topic == getTopic(s.title)
           at    == {i \in 1..Len(kept) : topics[i] = topic}
       IN  IF at = {}
             THEN dedupe(Tail(rest), Append(kept, s), Append(topics, topic))
             ELSE LET idx == CHOOSE i \in at : TRUE
                  IN  IF priorityOrder[s.priority] < priorityOrder[kept[idx].priority]
                        THEN dedupe(Tail(rest), [kept EXCEPT ![idx] = s], topics)
                        ELSE dedupe(Tail(rest), kept, topics)

deduplicateSuggestions(list) == dedupe(list, << >>, << >>)

\* the comparator key of the final sort: priorityOrder[x.priority] || 5,
\* where the 0 of critical is falsy
sortKey(s) ==
  IF priorityOrder[s.priority] = 0 THEN 5 ELSE priorityOrder[s.priority]

\* Array.prototype.sort with the comparator above (the sort is stable)
sortByPriority(list) ==
  LET part(k) == SelectSeq(list, LAMBDA s : sortKey(s) = k)
  IN  part(0) \o part(1) \o part(2) \o part(3) \o part(4) \o part(5)

\* addMandatorySuggestions without the "always suggest something" branch
addMandatorySuggestions_NoFallback(list, conf, st) ==
  LET deduped == deduplicateSuggestions(list)
      limited == IF conf # "HIGH"
                   THEN << Suggestion("info", "analysis", "Analysis depth limited") >>
                   ELSE << >>
      nextjs  == IF st.framework = "Next.js" /\ ~ st.hasTests
                   THEN << Suggestion("medium", "testing", "Add React Testing Library") >>
                   ELSE << >>
  IN  sortByPriority(deduped \o limited \o nextjs)

addMandatorySuggestions(list, conf, st) ==
  LET deduped == deduplicateSuggestions(list)
      always  == IF deduped = << >>
                   THEN << Suggestion("low", "general", "Consider adding more documentation") >>
                   ELSE << >>
      limited == IF conf # "HIGH"
                   THEN << Suggestion("info", "analysis", "Analysis depth limited") >>
                   ELSE << >>
      nextjs  == IF st.framework = "Next.js" /\ ~ st.hasTests
                   THEN << Suggestion("medium", "testing", "Add React Testing Library") >>
                   ELSE << >>
  IN  sortByPriority(deduped \o always \o limited \o nextjs)

Action(n, t) == [priority |-> n, title |-> t]

\* generatePriorityActions without the "always at least one action" branch
generatePriorityActions_NoFallback(sec, st, deps) ==
     (IF sec.vulnerabilities.critical > 0
        THEN << Action(1, "Fix critical security vulnerabilities") >> ELSE << >>)
  \o (IF sec.vulnerabilities.high > 0
        THEN << Action(2, "Fix high severity vulnerabilities") >> ELSE << >>)
  \o (IF ~ st.hasTests THEN << Action(3, "Add automated tests") >> ELSE << >>)
  \o (IF ~ st.hasESLint THEN << Action(4, "Add code linting") >> ELSE << >>)
  \o (IF deps.outdated > 5 THEN << Action(5, "Update outdated packages") >> ELSE << >>)

\* generatePriorityActions with the missing-tests action pushed first
generatePriorityActions_TestsFirst(sec, st, deps) ==
  LET actions ==
           (IF ~ st.hasTests THEN << Action(3, "Add automated tests") >> ELSE << >>)
        \o (IF sec.vulnerabilities.critical > 0
              THEN << Action(1, "Fix critical security vulnerabilities") >> ELSE << >>)
        \o (IF sec.vulnerabilities.high > 0
              THEN << Action(2, "Fix high severity vulnerabilities") >> ELSE << >>)
        \o (IF ~ st.hasESLint THEN << Action(4, "Add code linting") >> ELSE << >>)
        \o (IF deps.outdated > 5 THEN << Action(5, "Update outdated packages") >> ELSE << >>)
  IN  IF actions = << >> THEN << Action(1, "Maintain regular updates") >> ELSE actions

generatePriorityActions(sec, st, deps) ==
  LET actions ==
           (IF sec.vulnerabilities.critical > 0
              THEN << Action(1, "Fix critical security vulnerabilities") >> ELSE << >>)
        \o (IF sec.vulnerabilities.high > 0
              THEN << Action(2, "Fix high severity vulnerabilities") >> ELSE << >>)
        \o (IF ~ st.hasTests THEN << Action(3, "Add automated tests") >> ELSE << >>)
        \o (IF ~ st.hasESLint THEN << Action(4, "Add code linting") >> ELSE << >>)
        \o (IF deps.outdated > 5 THEN << Action(5, "Update outdated packages") >> ELSE << >>)
  IN  IF actions = << >> THEN << Action(1, "Maintain regular updates") >> ELSE actions

-----------------------------------------------------------------------------
(* Manifests (parsed package.json files)                                    *)

NoScripts ==
  [start |-> "", dev |-> "", build |-> "", prepublish |-> "",
   prepublishOnly |-> "", test |-> ""]

EmptyPkg ==
  [bin |-> "", main |-> "", module |-> "", exports |-> "", workspaces |-> "",
   lpierna |-> "", private |-> FALSE, name |-> "", scripts |-> NoScripts,
   deps |-> {}]

\* an application served by Next.js: no linter, no tests, no type-checking
AppBarePkg ==
  [EmptyPkg EXCEPT !.name = "my-app", !.scripts.start = "next start",
                   !.scripts.dev = "next dev", !.deps = {"next", "react"}]

\* an application with type-checking, a linter and a test framework
AppFullPkg ==
  [EmptyPkg EXCEPT !.name = "shop-api", !.main = "server.js",
                   !.scripts.start = "node server.js", !.scripts.test = "jest",
                   !.deps = {"express", "typescript", "eslint", "jest"}]

\* a library with its own lint configuration
LibPkg ==
  [EmptyPkg EXCEPT !.name = "tiny-lib", !.main = "dist/index.js",
                   !.scripts.build = "rollup -c", !.scripts.test = "mocha",
                   !.deps = {"eslint", "mocha"}]

\* a command-line tool that also has main and workspaces
CliPkg ==
  [EmptyPkg EXCEPT !.name = "tool", !.bin = "./cli.js", !.main = "index.js",
                   !.workspaces = "packages/*", !.scripts.build = "tsc",
                   !.deps = {"vitest"}]

\* the manifests a run may find: any of them at the root, two at a nested one
PipelineManifests(loc) ==
  IF loc = "root" THEN {AppBarePkg, AppFullPkg, LibPkg, CliPkg}
  ELSE {AppBarePkg, CliPkg}

\* the manifests the classifier is exercised on
AllManifests ==
  [bin : {"", "./cli.js"}, main : {"", "index.js"}, module : {"", "index.mjs"},
   exports : {"", "./dist"}, workspaces : {"", "packages/*"},
   lpierna : {"", "packages"},
   private : BOOLEAN, name : {"", "tiny-lib", "Fastify-Plugin"},
   scripts : [start : {"", "node index.js", "node server.js", "node app.js",
                       "node src/index.js", "next start", "react-scripts start"},
              dev : {"", "next dev"},
              build : {"", "vite build", "rollup -c", "tsc", "webpack"},
              prepublish : {"", "npm run build"},
              prepublishOnly : {""},
              test : {""}],
   deps : {{}}]

\* the manifest locations findPackageJsonFiles probes, in its order
Locations == << "root", "frontend" >>

\* the stack fields analyzePackageJson derives from a manifest
stackFromPkg(st, p, tsconfig) ==
  LET ts == "typescript" \in p.deps \/ tsconfig
      fw == IF "next" \in p.deps THEN "Next.js"
            ELSE IF "react" \in p.deps THEN "React"
            ELSE IF "vue" \in p.deps THEN "Vue.js"
            ELSE IF "@angular/core" \in p.deps THEN "Angular"
            ELSE IF "express" \in p.deps THEN "Express.js"
            ELSE IF "fastify" \in p.deps THEN "Fastify"
            ELSE IF "svelte" \in p.deps THEN "Svelte"
            ELSE IF "nuxt" \in p.deps THEN "Nuxt.js"
            ELSE st.framework
  IN  [st EXCEPT !.detected = TRUE,
                 !.language = IF ts THEN "TypeScript" ELSE "JavaScript",
                 !.hasTypeScript = st.hasTypeScript \/ ts,
                 !.framework = fw,
                 !.hasESLint = ("eslint" \in p.deps \/ "@eslint/js" \in p.deps),
                 !.hasTests = \/ p.deps \cap {"jest", "mocha", "vitest",
                                              "@testing-library/react"} # {}
                              \/ Truthy(p.scripts.test)]

\* the suggestions analyzePackageJson pushes (applications only)
pkgSuggestions(rt, st) ==
  IF rt = "application"
    THEN (IF ~ st.hasTypeScript
            THEN << Suggestion("medium", "code-quality", "Consider using TypeScript") >>
            ELSE << >>)
      \o (IF ~ st.hasESLint
            THEN << Suggestion("high", "code-quality", "Add ESLint for code quality") >>
            ELSE << >>)
      \o (IF ~ st.hasTests
            THEN << Suggestion("high", "maintenance", "Add automated tests") >>
            ELSE << >>)
    ELSE << >>

-----------------------------------------------------------------------------
(* Collectors: the effect of one run on its evidence, given what the       *)
(* external tool did.  An output is [kind, ...] with kind one of           *)
(*   "throw"     the exec rejected (timeout, spawn failure)                *)
(*   "empty"     empty stdout                                              *)
(*   "malformed" stdout that JSON.parse rejects                            *)
(*   "nometa"    JSON without the expected structure                       *)
(*   "ok"        JSON with the expected structure                          *)

Out(k) == [kind |-> k]
AuditOut(v) == [kind |-> "ok", v |-> v]
LintOut(e, w) == [kind |-> "ok", errors |-> e, warnings |-> w]
ListOut(n) == [kind |-> "ok", n |-> n]

\* runSecurityAudit: o1 is the full audit, o2 the --omit=dev audit
runSecurityAudit(sec, o1, o2) ==
  IF o1.kind \in {"throw", "malformed"}
    THEN [sec EXCEPT !.analyzed = FALSE]
    ELSE LET sec1 == IF o1.kind = "ok"
                       THEN [sec EXCEPT !.vulnerabilities = o1.v, !.analyzed = TRUE]
                       ELSE sec
         IN  CASE o2.kind = "throw"     -> [sec1 EXCEPT !.analyzed = FALSE]
               [] o2.kind = "empty"     -> [sec1 EXCEPT !.productionVulns = NoVulns]
               [] o2.kind = "malformed" ->
                    [sec1 EXCEPT !.productionVulns = sec1.vulnerabilities]
               [] o2.kind = "nometa"    -> sec1
               [] o2.kind = "ok"        -> [sec1 EXCEPT !.productionVulns = o2.v]

\* checkOutdatedPackages
checkOutdatedPackages(deps, o) ==
  CASE o.kind \in {"throw", "malformed"} -> [deps EXCEPT !.analyzed = FALSE]
    [] o.kind = "empty" -> [deps EXCEPT !.analyzed = TRUE, !.outdated = 0]
    [] o.kind = "ok"    -> [deps EXCEPT !.analyzed = TRUE, !.outdated = o.n]

outdatedSuggestions(o) ==
  IF o.kind = "ok" /\ o.n > 10
    THEN << Suggestion("medium", "maintenance", "Update outdated dependencies") >>
  ELSE IF o.kind = "ok" /\ o.n > 0
    THEN << Suggestion("low", "maintenance",
              ToString(o.n) \o " packages can be updated") >>
  ELSE << >>

\* runESLint
runESLint(cq, o) ==
  IF o.kind = "ok"
    THEN [cq EXCEPT !.eslintErrors = o.errors, !.eslintWarnings = o.warnings,
                    !.analyzed = TRUE]
    ELSE [cq EXCEPT !.analyzed = FALSE]

eslintSuggestions(o) ==
  IF o.kind = "ok"
    THEN (IF o.errors > 0
            THEN << Suggestion("high", "code-quality",
                      "Fix " \o ToString(o.errors) \o " ESLint errors") >>
            ELSE << >>)
      \o (IF o.warnings > 5
            THEN << Suggestion("medium", "code-quality",
                      "Address " \o ToString(o.warnings) \o " ESLint warnings") >>
            ELSE << >>)
    ELSE << >>

\* what the external tools are made to answer, per manifest location: every
\* outcome at the root, a few at a nested package
AuditRuns(loc) ==
  IF loc = "root"
    THEN { << Out("throw"), Out("throw") >>,
           << Out("empty"), Out("empty") >>,
           << AuditOut(NoVulns), AuditOut(NoVulns) >>,
           << AuditOut(Vulns(2, 3, 0, 0)), AuditOut(Vulns(2, 3, 0, 0)) >>,
           << AuditOut(Vulns(2, 3, 0, 0)), AuditOut(NoVulns) >>,
           << AuditOut(Vulns(0, 1, 1, 0)), Out("malformed") >> }
    ELSE { << Out("throw"), Out("throw") >>,
           << AuditOut(Vulns(1, 0, 0, 0)), AuditOut(Vulns(1, 0, 0, 0)) >> }

OutdatedRuns(loc) ==
  IF loc = "root"
    THEN { Out("throw"), Out("empty"), ListOut(3), ListOut(11) }
    ELSE { Out("empty") }

LintRuns(loc) ==
  IF loc = "root"
    THEN { Out("throw"), Out("empty"), LintOut(0, 0), LintOut(6, 11) }
    ELSE { LintOut(2, 0) }

TypeCheckRuns == { Out("throw"), ListOut(0), ListOut(2) }

\* what checkProjectStructure finds in the working copy
Probe(r, l, e, c, s) ==
  [readme |-> r, license |-> l, env |-> e, cicd |-> c, structure |-> s]

StructureProbes ==
  { Probe(FALSE, FALSE, FALSE, FALSE, FALSE),
    Probe(TRUE, FALSE, FALSE, FALSE, FALSE),
    Probe(TRUE, TRUE, FALSE, TRUE, FALSE),
    Probe(TRUE, TRUE, TRUE, TRUE, TRUE) }

-----------------------------------------------------------------------------
(* Job runner (jobRunner.service.js): its module state and the database     *)
(* tables it works on.  Only repository jobs are modelled (isGitHubRepo).   *)

MAX_CONCURRENT == 1

\* calls of poll() in flight at once: one more than the limit on jobs
MaxPolls == MAX_CONCURRENT + 1

\* projects submitted over a behaviour
MaxProjects == 2

PollSlots == 1..MaxPolls

\* project ids, in the order of their createdAt
ProjectIds == 1..MaxProjects

NoReport == [success |-> FALSE, error |-> "none", scores |-> [none |-> TRUE]]

\* a slot with no call of poll() in flight
IdleCall == [at |-> "idle", project |-> 0, report |-> NoReport]

InitRunner ==
  /\ isRunning = FALSE
  /\ pollTimer = FALSE
  /\ currentJobs = 0
  /\ pollCalls = [i \in PollSlots |-> IdleCall]
  /\ projects = [p \in ProjectIds |-> "NONE"]
  /\ analysisResults = [p \in ProjectIds |-> << >>]

-----------------------------------------------------------------------------
(* One run of analyzeGitHubRepo, for a URL that parseGitHubUrl accepts.     *)
(* result.plainEnglishSummary, result.rawMetrics and the details lists are  *)
(* written but never read by the run and are not part of the state.         *)

InitStack ==
  [detected |-> FALSE, framework |-> "null", language |-> "null",
   hasTypeScript |-> FALSE, hasESLint |-> FALSE, hasTests |-> FALSE,
   hasCICD |-> FALSE, hasReadme |-> FALSE, hasLicense |-> FALSE,
   hasEnvExample |-> FALSE, hasProperStructure |-> FALSE]

InitSecurity ==
  [analyzed |-> FALSE, vulnerabilities |-> NoVulns, productionVulns |-> Undefined]

InitDependencies == [analyzed |-> FALSE, outdated |-> 0]

InitCodeQuality == [analyzed |-> FALSE, eslintErrors |-> 0, eslintWarnings |-> 0]

InitTypescript == [analyzed |-> FALSE, configured |-> FALSE, errors |-> 0]

InitScores == [security |-> 50, codeQuality |-> 50, maintenance |-> 50, overall |-> 50]

\* the result object as analyzeGitHubRepo constructs it
InitResult ==
  /\ repoType = "application"
  /\ classified = FALSE
  /\ stack = InitStack
  /\ security = InitSecurity
  /\ dependencies = InitDependencies
  /\ codeQuality = InitCodeQuality
  /\ typescript = InitTypescript
  /\ scores = InitScores
  /\ scoreDetails = Undefined
  /\ analysisConfidence = "LOW"
  /\ verdict = "undefined"
  /\ suggestions = << >>
  /\ priorityActions = << >>
  /\ success = FALSE
  /\ error = "null"

Init ==
  /\ pc = "clone"
  /\ pkg = EmptyPkg
  /\ manifests = << >>
  /\ repoDir = FALSE
  /\ InitResult
  /\ InitRunner

\* where the per-manifest loop continues
LoopNext(ms) == IF ms = << >> THEN "tsc" ELSE "manifest"

\* git clone --depth 1 succeeded
CloneOk ==
  /\ pc = "clone"
  /\ repoDir' = TRUE
  /\ pc' = "discover"
  /\ UNCHANGED <<runnerVars, scoreDetails>>
  /\ UNCHANGED <<pkg, manifests, repoType, classified, stack, security,
                 dependencies, codeQuality, typescript, scores,
                 analysisConfidence, verdict, suggestions,
                 priorityActions, success, error>>

\* a failed clone whose error is recorded but does not end the try block
CloneFail_Continues ==
  /\ pc = "clone"
  /\ repoDir' \in BOOLEAN
  /\ error' = "clone failed"
  /\ pc' = "discover"
  /\ UNCHANGED <<runnerVars, scoreDetails>>
  /\ UNCHANGED <<pkg, manifests, repoType, classified, stack, security,
                 dependencies, codeQuality, typescript, scores,
                 analysisConfidence, verdict, suggestions,
                 priorityActions, success>>

\* git clone failed or timed out; it may leave a partial directory behind
CloneFail ==
  /\ pc = "clone"
  /\ repoDir' \in BOOLEAN
  /\ error' = "clone failed"
  /\ pc' = "cleanup"
  /\ UNCHANGED <<runnerVars, scoreDetails>>
  /\ UNCHANGED <<pkg, manifests, repoType, classified, stack, security,
                 dependencies, codeQuality, typescript, scores,
                 analysisConfidence, verdict, suggestions,
                 priorityActions, success>>

\* findPackageJsonFiles: any sub-list of the probed locations
FindPackageJsonFiles ==
  /\ pc = "discover"
  /\ \E found \in SUBSET (1..Len(Locations)) :
       /\ manifests' = SelectSeq(Locations,
                         LAMBDA l : \E i \in found : Locations[i] = l)
       /\ pc' = IF found = {} THEN "nonNode" ELSE "manifest"
  /\ UNCHANGED <<runnerVars, scoreDetails>>
  /\ UNCHANGED <<pkg, repoDir, repoType, classified, stack, security,
                 dependencies, codeQuality, typescript, scores,
                 analysisConfidence, verdict, suggestions,
                 priorityActions, success, error>>

\* analyzeNonNodeProject
AnalyzeNonNodeProject ==
  /\ pc = "nonNode"
  /\ \E kind \in {"Python", "Go", "none"} :
       LET pushed ==
             IF kind = "Python"
               THEN << Suggestion("info", "analysis", "Python project detected") >>
             ELSE IF kind = "Go"
               THEN << Suggestion("info", "analysis", "Go project detected") >>
             ELSE << Suggestion("high", "analysis", "Project type not recognized") >>
       IN  /\ stack' = IF kind = "none" THEN stack
                       ELSE [stack EXCEPT !.detected = TRUE, !.language = kind,
                                          !.framework = "Unknown"]
           /\ suggestions' = suggestions \o pushed
  /\ pc' = "structure"
  /\ UNCHANGED <<runnerVars, scoreDetails>>
  /\ UNCHANGED <<pkg, manifests, repoDir, repoType, classified, security,
                 dependencies, codeQuality, typescript, scores,
                 analysisConfidence, verdict, priorityActions, success, error>>

\* analyzePackageJson on the next manifest of the loop, which parses
AnalyzePackageJson ==
  /\ pc = "manifest"
  /\ manifests # << >>
  /\ \E p \in PipelineManifests(Head(manifests)), tsconfig \in BOOLEAN :
       LET rt == detectRepoType(p)
           st == stackFromPkg(stack, p, tsconfig)
       IN  /\ repoType' = rt
           /\ classified' = TRUE
           /\ stack' = st
           /\ suggestions' = suggestions \o pkgSuggestions(rt, st)
  /\ pc' = "install"
  /\ UNCHANGED <<runnerVars, scoreDetails>>
  /\ UNCHANGED <<pkg, manifests, repoDir, security, dependencies, codeQuality, typescript,
                 scores, analysisConfidence, verdict, priorityActions,
                 success, error>>

\* analyzePackageJson on a manifest that JSON.parse rejects
AnalyzePackageJsonInvalid ==
  /\ pc = "manifest"
  /\ manifests # << >>
  /\ stack' = [stack EXCEPT !.detected = FALSE]
  /\ manifests' = Tail(manifests)
  /\ pc' = LoopNext(Tail(manifests))
  /\ UNCHANGED <<runnerVars, scoreDetails>>
  /\ UNCHANGED <<pkg, repoDir, repoType, classified, security, dependencies,
                 codeQuality, typescript, scores, analysisConfidence, verdict,
                 suggestions, priorityActions, success, error>>

\* npm install --ignore-scripts succeeded
NpmInstallOk ==
  /\ pc = "install"
  /\ pc' = "audit"
  /\ UNCHANGED <<runnerVars, scoreDetails>>
  /\ UNCHANGED <<pkg, manifests, repoDir, repoType, classified, stack,
                 security, dependencies, codeQuality, typescript, scores,
                 analysisConfidence, verdict, suggestions,
                 priorityActions, success, error>>

\* npm install failed, with the collectors placed outside its try block
NpmInstallFail_StillAudits ==
  /\ pc = "install"
  /\ pc' = "audit"
  /\ UNCHANGED <<runnerVars, scoreDetails>>
  /\ UNCHANGED <<pkg, manifests, repoDir, repoType, classified, stack,
                 security, dependencies, codeQuality, typescript, scores,
                 analysisConfidence, verdict, suggestions,
                 priorityActions, success, error>>

\* npm install failed: the manifest's collectors are skipped
NpmInstallFail ==
  /\ pc = "install"
  /\ manifests' = Tail(manifests)
  /\ pc' = LoopNext(Tail(manifests))
  /\ UNCHANGED <<runnerVars, scoreDetails>>
  /\ UNCHANGED <<pkg, repoDir, repoType, classified, stack,
                 security, dependencies, codeQuality, typescript, scores,
                 analysisConfidence, verdict, suggestions,
                 priorityActions, success, error>>

RunSecurityAudit ==
  /\ pc = "audit"
  /\ \E run \in AuditRuns(Head(manifests)) : security' = runSecurityAudit(security, run[1], run[2])
  /\ pc' = "outdated"
  /\ UNCHANGED <<runnerVars, scoreDetails>>
  /\ UNCHANGED <<pkg, manifests, repoDir, repoType, classified, stack,
                 dependencies, codeQuality, typescript, scores,
                 analysisConfidence, verdict, suggestions,
                 priorityActions, success, error>>

CheckOutdatedPackages ==
  /\ pc = "outdated"
  /\ \E o \in OutdatedRuns(Head(manifests)) :
       /\ dependencies' = checkOutdatedPackages(dependencies, o)
       /\ suggestions' = suggestions \o outdatedSuggestions(o)
  /\ pc' = "eslint"
  /\ UNCHANGED <<runnerVars, scoreDetails>>
  /\ UNCHANGED <<pkg, manifests, repoDir, repoType, classified, stack,
                 security, codeQuality, typescript, scores,
                 analysisConfidence, verdict, priorityActions, success, error>>

RunESLint ==
  /\ pc = "eslint"
  /\ \E o \in LintRuns(Head(manifests)) :
       /\ codeQuality' = runESLint(codeQuality, o)
       /\ suggestions' = suggestions \o eslintSuggestions(o)
  /\ manifests' = Tail(manifests)
  /\ pc' = LoopNext(Tail(manifests))
  /\ UNCHANGED <<runnerVars, scoreDetails>>
  /\ UNCHANGED <<pkg, repoDir, repoType, classified, stack,
                 security, dependencies, typescript, scores,
                 analysisConfidence, verdict, priorityActions, success, error>>

\* runTypeScriptCheck
RunTypeScriptCheck ==
  /\ pc = "tsc"
  /\ \E o \in TypeCheckRuns :
       LET ran == stack.hasTypeScript /\ o.kind = "ok"
           pushed == IF ran /\ o.n > 0
                       THEN << Suggestion("high", "code-quality",
                                 "Fix " \o ToString(o.n) \o " TypeScript errors") >>
                       ELSE << >>
       IN  /\ typescript' = IF ran
                              THEN [analyzed |-> TRUE, configured |-> TRUE,
                                    errors |-> o.n]
                              ELSE typescript
           /\ suggestions' = suggestions \o pushed
  /\ pc' = "structure"
  /\ UNCHANGED <<runnerVars, scoreDetails>>
  /\ UNCHANGED <<pkg, manifests, repoDir, repoType, classified, stack,
                 security, dependencies, codeQuality, scores,
                 analysisConfidence, verdict, priorityActions, success, error>>

\* checkProjectStructure
CheckProjectStructure ==
  /\ pc = "structure"
  /\ \E found \in StructureProbes :
       stack' = [stack EXCEPT !.hasReadme = @ \/ found.readme,
                              !.hasLicense = @ \/ found.license,
                              !.hasEnvExample = @ \/ found.env,
                              !.hasCICD = @ \/ found.cicd,
                              !.hasProperStructure = found.structure]
  /\ pc' = "score"
  /\ UNCHANGED <<runnerVars, scoreDetails>>
  /\ UNCHANGED <<pkg, manifests, repoDir, repoType, classified, security,
                 dependencies, codeQuality, typescript, scores,
                 analysisConfidence, verdict, suggestions,
                 priorityActions, success, error>>

\* calculateScores (with the getVerdict call it ends with)
CalculateScores ==
  /\ pc = "score"
  /\ LET sc == finalScores(repoType, stack, security, codeQuality, dependencies)
         pushed == scoreSuggestions(repoType, stack, security, codeQuality)
     IN  /\ scores' = sc
         /\ analysisConfidence' =
              confidenceOf(checksRun(security, codeQuality, dependencies)).label
         /\ verdict' = getVerdict(sc, repoType)
         /\ scoreDetails' = [security |-> securityDetails(repoType, security)]
         /\ suggestions' = suggestions \o pushed
  /\ pc' = "mandatory"
  /\ UNCHANGED runnerVars
  /\ UNCHANGED <<pkg, manifests, repoDir, repoType, classified, stack,
                 security, dependencies, codeQuality, typescript,
                 priorityActions, success, error>>

AddMandatorySuggestions ==
  /\ pc = "mandatory"
  /\ suggestions' = addMandatorySuggestions(suggestions, analysisConfidence, stack)
  /\ pc' = "actions"
  /\ UNCHANGED <<runnerVars, scoreDetails>>
  /\ UNCHANGED <<pkg, manifests, repoDir, repoType, classified, stack,
                 security, dependencies, codeQuality, typescript, scores,
                 analysisConfidence, verdict, priorityActions, success, error>>

\* generatePriorityActions, then result.success = true
GeneratePriorityActions ==
  /\ pc = "actions"
  /\ priorityActions' = generatePriorityActions(security, stack, dependencies)
  /\ success' = TRUE
  /\ pc' = "cleanup"
  /\ UNCHANGED <<runnerVars, scoreDetails>>
  /\ UNCHANGED <<pkg, manifests, repoDir, repoType, classified, stack,
                 security, dependencies, codeQuality, typescript, scores,
                 analysisConfidence, verdict, suggestions, error>>

\* the finally block: fs.rm(repoDir, {recursive, force}), then return result
Cleanup ==
  /\ pc = "cleanup"
  /\ repoDir' = FALSE
  /\ pc' = "done"
  /\ UNCHANGED <<runnerVars, scoreDetails>>
  /\ UNCHANGED <<pkg, manifests, repoType, classified, stack, security,
                 dependencies, codeQuality, typescript, scores,
                 analysisConfidence, verdict, suggestions,
                 priorityActions, success, error>>

\* the finally block when fs.rm rejects (a busy or unremovable entry): the
\* inner catch logs a warning, the directory stays, and the result is returned
CleanupFail ==
  /\ pc = "cleanup"
  /\ repoDir
  /\ pc' = "done"
  /\ UNCHANGED <<runnerVars, scoreDetails>>
  /\ UNCHANGED <<pkg, manifests, repoDir, repoType, classified, stack,
                 security, dependencies, codeQuality, typescript, scores,
                 analysisConfidence, verdict, suggestions,
                 priorityActions, success, error>>

Next ==
  \/ CloneOk
  \/ CloneFail
  \/ FindPackageJsonFiles
  \/ AnalyzeNonNodeProject
  \/ AnalyzePackageJson
  \/ AnalyzePackageJsonInvalid
  \/ NpmInstallOk
  \/ NpmInstallFail
  \/ RunSecurityAudit
  \/ CheckOutdatedPackages
  \/ RunESLint
  \/ RunTypeScriptCheck
  \/ CheckProjectStructure
  \/ CalculateScores
  \/ AddMandatorySuggestions
  \/ GeneratePriorityActions
  \/ Cleanup
  \/ CleanupFail

Spec == Init /\ [][Next]_vars

-----------------------------------------------------------------------------
(* The classifier on its own: detectRepoType applied to any manifest        *)

InitClassify ==
  /\ pc = "classify"
  /\ pkg \in AllManifests
  /\ manifests = << >>
  /\ repoDir = FALSE
  /\ InitResult
  /\ InitRunner

\* result.repoType = detectRepoType(pkg, repoDir)
Classify ==
  /\ pc = "classify"
  /\ repoType' = detectRepoType(pkg)
  /\ classified' = TRUE
  /\ pc' = "classified"
  /\ UNCHANGED <<runnerVars, scoreDetails>>
  /\ UNCHANGED <<pkg, manifests, repoDir, stack, security, dependencies,
                 codeQuality, typescript, scores, analysisConfidence, verdict,
                 suggestions, priorityActions, success, error>>

SpecClassify == InitClassify /\ [][Classify]_vars

-----------------------------------------------------------------------------
(* The scoring engine on its own: calculateScores applied to any evidence   *)

RepoTypes == {"application", "library", "framework", "cli", "monorepo"}

MaxVulnCount == 1

\* audit counts: critical and high up to the bound, moderate and low 0 or 1
VulnProfiles ==
  { Vulns(c, h, m, l) : c \in 0..MaxVulnCount, h \in 0..MaxVulnCount,
                        m \in {0, 1}, l \in {0, 1} }

\* security evidence: the audit did not run, or ran with any profile; the
\* production-only figures equal the full ones or are all zero (devDependency
\* findings only)
SecurityEvidence ==
  { InitSecurity }
  \cup UNION { { [analyzed |-> TRUE, vulnerabilities |-> v, productionVulns |-> p] :
                   p \in {v, NoVulns} } : v \in VulnProfiles }

\* lint evidence on both sides of the 0 / 5 and 10 / 25 thresholds
CodeQualityEvidence ==
  { InitCodeQuality }
  \cup { [analyzed |-> TRUE, eslintErrors |-> e, eslintWarnings |-> w] :
           e \in {0, 5, 6}, w \in {10, 11, 26} }

\* outdated counts on both sides of the 0 / 5 / 10 thresholds
DependencyEvidence ==
  { InitDependencies }
  \cup { [analyzed |-> TRUE, outdated |-> n] : n \in {0, 5, 10, 11} }

\* stack evidence: every combination of the flags the rubric branches on; the
\* three flags that only add 2 hygiene points each (LICENSE, env example,
\* folder layout) are taken cumulatively
StackEvidence ==
  { st \in [detected : {TRUE}, framework : {"null"}, language : {"JavaScript"},
            hasTypeScript : BOOLEAN, hasESLint : BOOLEAN, hasTests : BOOLEAN,
            hasCICD : BOOLEAN, hasReadme : BOOLEAN, hasLicense : BOOLEAN,
            hasEnvExample : BOOLEAN, hasProperStructure : BOOLEAN] :
      /\ st.hasEnvExample => st.hasLicense
      /\ st.hasProperStructure => st.hasEnvExample }

InitScore ==
  /\ pc = "score"
  /\ pkg = EmptyPkg
  /\ manifests = << >>
  /\ repoDir = TRUE
  /\ repoType \in RepoTypes
  /\ classified = TRUE
  /\ stack \in StackEvidence
  /\ security \in SecurityEvidence
  /\ (isLibraryType(repoType) \/ security = InitSecurity
        \/ security.productionVulns = security.vulnerabilities)
  /\ dependencies \in DependencyEvidence
  /\ codeQuality \in CodeQualityEvidence
  /\ typescript = InitTypescript
  /\ scores = InitScores
  /\ scoreDetails = Undefined
  /\ analysisConfidence = "LOW"
  /\ verdict = "undefined"
  /\ suggestions = << >>
  /\ priorityActions = << >>
  /\ success = FALSE
  /\ error = "null"
  /\ InitRunner

SpecScore == InitScore /\ [][CalculateScores]_vars

-----------------------------------------------------------------------------
(* The scoring engine executed twice on the same result object: the second  *)
(* execution of calculateScores finds the scores, confidence, verdict and   *)
(* suggestions the first one wrote.                                         *)

\* the evidence of InitScore with the two hygiene-only flags left out
InitRescore ==
  /\ InitScore
  /\ ~ stack.hasEnvExample
  /\ ~ stack.hasProperStructure

\* calculateScores(result) called again on the result it has already scored
CalculateScoresAgain ==
  /\ pc = "mandatory"
  /\ LET sc == finalScores(repoType, stack, security, codeQuality, dependencies)
         pushed == scoreSuggestions(repoType, stack, security, codeQuality)
     IN  /\ scores' = sc
         /\ analysisConfidence' =
              confidenceOf(checksRun(security, codeQuality, dependencies)).label
         /\ verdict' = getVerdict(sc, repoType)
         /\ scoreDetails' = [security |-> securityDetails(repoType, security)]
         /\ suggestions' = suggestions \o pushed
  /\ pc' = "rescored"
  /\ UNCHANGED runnerVars
  /\ UNCHANGED <<pkg, manifests, repoDir, repoType, classified, stack,
                 security, dependencies, codeQuality, typescript,
                 priorityActions, success, error>>

SpecRescore == InitRescore /\ [][CalculateScores \/ CalculateScoresAgain]_vars

-----------------------------------------------------------------------------
(* The job runner: start, stop, the polls of the interval timer, and        *)
(* processJob for each project a poll picks.  A call of poll() moves        *)
(* between its awaits:                                                      *)
(*   "query"    awaiting prisma.project.findFirst                           *)
(*   "update"   awaiting the status update to ANALYZING                     *)
(*   "analyze"  awaiting analyzeGitHubRepo                                  *)
(*   "save"     awaiting prisma.analysisResult.create                       *)
(*   "markDone" awaiting the status update to DONE                          *)
(*   "fail"     in the catch, awaiting the status update to FAILED          *)

\* what analyzeGitHubRepo returns when the clone failed: the result as built
FailedReport ==
  [success |-> FALSE, error |-> "clone failed", scores |-> InitScores]

\* what it returns for a completed analysis of the given evidence
CompletedReport(rt, st, sec, cq, deps) ==
  [success |-> TRUE, error |-> "null", scores |-> finalScores(rt, st, sec, cq, deps)]

\* the reports a job may get: a failed clone, and a completed analysis of an
\* application with tests whose npm install failed
Reports ==
  { FailedReport,
    CompletedReport("application",
                    [InitStack EXCEPT !.detected = TRUE, !.hasTests = TRUE],
                    InitSecurity, InitCodeQuality, InitDependencies) }

\* resultData as processJob fills it from githubResult
resultData(p, r) ==
  [projectId |-> p, success |-> r.success,
   securityScore |-> r.scores.security,
   codeQualityScore |-> r.scores.codeQuality,
   overallScore |-> r.scores.overall]

FreeSlots == {i \in PollSlots : pollCalls[i].at = "idle"}

\* poll() up to its first await: it returns at once when the runner is
\* stopped or at its limit, else it issues the findFirst query
pollEnters(running) ==
  IF running /\ currentJobs < MAX_CONCURRENT
    THEN LET i == CHOOSE k \in FreeSlots : \A j \in FreeSlots : k <= j
         IN  [pollCalls EXCEPT ![i] = [IdleCall EXCEPT !.at = "query"]]
    ELSE pollCalls

\* the finally of processJob, after which the call of poll() is over
release(i) ==
  /\ currentJobs' = currentJobs - 1
  /\ pollCalls' = [pollCalls EXCEPT ![i] = IdleCall]

\* submitProject: a project is created with status PENDING
SubmitProject ==
  /\ \E p \in ProjectIds :
       /\ projects[p] = "NONE"
       /\ \A q \in ProjectIds : q < p => projects[q] # "NONE"
       /\ projects' = [projects EXCEPT ![p] = "PENDING"]
  /\ UNCHANGED <<isRunning, pollTimer, currentJobs, pollCalls, analysisResults>>
  /\ UNCHANGED analyzerVars

\* start(): polls immediately, then sets the interval
Start ==
  /\ ~ isRunning
  /\ FreeSlots # {}
  /\ isRunning' = TRUE
  /\ pollCalls' = pollEnters(TRUE)
  /\ pollTimer' = TRUE
  /\ UNCHANGED <<currentJobs, projects, analysisResults>>
  /\ UNCHANGED analyzerVars

\* stop()
Stop ==
  /\ isRunning
  /\ isRunning' = FALSE
  /\ pollTimer' = FALSE
  /\ UNCHANGED <<currentJobs, pollCalls, projects, analysisResults>>
  /\ UNCHANGED analyzerVars

\* the interval fires and poll() gets past its two checks (a poll that
\* returns at one of them changes nothing)
TimerPoll ==
  /\ pollTimer
  /\ isRunning /\ currentJobs < MAX_CONCURRENT
  /\ FreeSlots # {}
  /\ pollCalls' = pollEnters(isRunning)
  /\ UNCHANGED <<isRunning, pollTimer, currentJobs, projects, analysisResults>>
  /\ UNCHANGED analyzerVars

\* findFirst resolves with the oldest PENDING project, or with none; on a
\* project, processJob starts: currentJobs++ and the update to ANALYZING
FindFirstResolves(i) ==
  /\ pollCalls[i].at = "query"
  /\ LET pending == {p \in ProjectIds : projects[p] = "PENDING"}
     IN  IF pending = {}
           THEN /\ pollCalls' = [pollCalls EXCEPT ![i] = IdleCall]
                /\ UNCHANGED currentJobs
           ELSE LET p == CHOOSE q \in pending : \A r \in pending : q <= r
                IN  /\ currentJobs' = currentJobs + 1
                    /\ pollCalls' = [pollCalls EXCEPT ![i] =
                                       [IdleCall EXCEPT !.at = "update", !.project = p]]
  /\ UNCHANGED <<isRunning, pollTimer, projects, analysisResults>>
  /\ UNCHANGED analyzerVars

\* findFirst rejects: the catch of poll() logs the error
FindFirstRejects(i) ==
  /\ pollCalls[i].at = "query"
  /\ pollCalls' = [pollCalls EXCEPT ![i] = IdleCall]
  /\ UNCHANGED <<isRunning, pollTimer, currentJobs, projects, analysisResults>>
  /\ UNCHANGED analyzerVars

\* the status update to ANALYZING is applied; analyzeGitHubRepo is called
UpdateAnalyzing(i) ==
  /\ pollCalls[i].at = "update"
  /\ projects' = [projects EXCEPT ![pollCalls[i].project] = "ANALYZING"]
  /\ pollCalls' = [pollCalls EXCEPT ![i].at = "analyze"]
  /\ UNCHANGED <<isRunning, pollTimer, currentJobs, analysisResults>>
  /\ UNCHANGED analyzerVars

\* the status update to ANALYZING rejects: processJob enters its catch
UpdateAnalyzingRejects(i) ==
  /\ pollCalls[i].at = "update"
  /\ pollCalls' = [pollCalls EXCEPT ![i].at = "fail"]
  /\ UNCHANGED <<isRunning, pollTimer, currentJobs, projects, analysisResults>>
  /\ UNCHANGED analyzerVars

\* analyzeGitHubRepo returns its result (it never throws); resultData is
\* filled and analysisResult.create is issued
AnalysisReturns(i) ==
  /\ pollCalls[i].at = "analyze"
  /\ \E r \in Reports :
       pollCalls' = [pollCalls EXCEPT ![i].at = "save", ![i].report = r]
  /\ UNCHANGED <<isRunning, pollTimer, currentJobs, projects, analysisResults>>
  /\ UNCHANGED analyzerVars

\* analysisResult.create stores the row; the update to DONE is issued
CreateResult(i) ==
  /\ pollCalls[i].at = "save"
  /\ LET p == pollCalls[i].project
     IN  analysisResults' =
           [analysisResults EXCEPT ![p] = Append(@, resultData(p, pollCalls[i].report))]
  /\ pollCalls' = [pollCalls EXCEPT ![i].at = "markDone"]
  /\ UNCHANGED <<isRunning, pollTimer, currentJobs, projects>>
  /\ UNCHANGED analyzerVars

\* analysisResult.create rejects: processJob enters its catch
CreateResultRejects(i) ==
  /\ pollCalls[i].at = "save"
  /\ pollCalls' = [pollCalls EXCEPT ![i].at = "fail"]
  /\ UNCHANGED <<isRunning, pollTimer, currentJobs, projects, analysisResults>>
  /\ UNCHANGED analyzerVars

\* the status update to DONE is applied; finally currentJobs--
UpdateDone(i) ==
  /\ pollCalls[i].at = "markDone"
  /\ projects' = [projects EXCEPT ![pollCalls[i].project] = "DONE"]
  /\ release(i)
  /\ UNCHANGED <<isRunning, pollTimer, analysisResults>>
  /\ UNCHANGED analyzerVars

\* the status update to DONE rejects: processJob enters its catch
UpdateDoneRejects(i) ==
  /\ pollCalls[i].at = "markDone"
  /\ pollCalls' = [pollCalls EXCEPT ![i].at = "fail"]
  /\ UNCHANGED <<isRunning, pollTimer, currentJobs, projects, analysisResults>>
  /\ UNCHANGED analyzerVars

\* the catch of processJob: the status update to FAILED is applied; finally
\* currentJobs--
UpdateFailed(i) ==
  /\ pollCalls[i].at = "fail"
  /\ projects' = [projects EXCEPT ![pollCalls[i].project] = "FAILED"]
  /\ release(i)
  /\ UNCHANGED <<isRunning, pollTimer, analysisResults>>
  /\ UNCHANGED analyzerVars

\* the status update to FAILED rejects too and is only logged; finally
\* currentJobs--
UpdateFailedRejects(i) ==
  /\ pollCalls[i].at = "fail"
  /\ release(i)
  /\ UNCHANGED <<isRunning, pollTimer, projects, analysisResults>>
  /\ UNCHANGED analyzerVars

NextRunner ==
  \/ SubmitProject
  \/ Start
  \/ Stop
  \/ TimerPoll
  \/ \E i \in PollSlots : FindFirstResolves(i)
  \/ \E i \in PollSlots : FindFirstRejects(i)
  \/ \E i \in PollSlots : UpdateAnalyzing(i)
  \/ \E i \in PollSlots : UpdateAnalyzingRejects(i)
  \/ \E i \in PollSlots : AnalysisReturns(i)
  \/ \E i \in PollSlots : CreateResult(i)
  \/ \E i \in PollSlots : CreateResultRejects(i)
  \/ \E i \in PollSlots : UpdateDone(i)
  \/ \E i \in PollSlots : UpdateDoneRejects(i)
  \/ \E i \in PollSlots : UpdateFailed(i)
  \/ \E i \in PollSlots : UpdateFailedRejects(i)

SpecRunner == Init /\ [][NextRunner]_vars

-----------------------------------------------------------------------------
(* Properties                                                               *)

-----------------------------------------------------------------------------
(* The job runner left running: start() is called at boot and stop() never. *)
(* The interval keeps firing, every awaited call settles, and no database   *)
(* call or analysis that is issued again and again is rejected every time.  *)

NextRunnerStarted ==
  \/ SubmitProject
  \/ Start
  \/ TimerPoll
  \/ \E i \in PollSlots : FindFirstResolves(i)
  \/ \E i \in PollSlots : FindFirstRejects(i)
  \/ \E i \in PollSlots : UpdateAnalyzing(i)
  \/ \E i \in PollSlots : UpdateAnalyzingRejects(i)
  \/ \E i \in PollSlots : AnalysisReturns(i)
  \/ \E i \in PollSlots : CreateResult(i)
  \/ \E i \in PollSlots : CreateResultRejects(i)
  \/ \E i \in PollSlots : UpdateDone(i)
  \/ \E i \in PollSlots : UpdateDoneRejects(i)
  \/ \E i \in PollSlots : UpdateFailed(i)
  \/ \E i \in PollSlots : UpdateFailedRejects(i)

\* every await of a call of poll() settles, one way or the other
AwaitsSettle ==
  \A i \in PollSlots :
    /\ WF_vars(FindFirstResolves(i) \/ FindFirstRejects(i))
    /\ WF_vars(UpdateAnalyzing(i) \/ UpdateAnalyzingRejects(i))
    /\ WF_vars(AnalysisReturns(i))
    /\ WF_vars(CreateResult(i) \/ CreateResultRejects(i))
    /\ WF_vars(UpdateDone(i) \/ UpdateDoneRejects(i))
    /\ WF_vars(UpdateFailed(i) \/ UpdateFailedRejects(i))

\* the database is not down for good: a call issued again and again is
\* applied at some point
DatabaseRecovers ==
  \A i \in PollSlots :
    /\ SF_vars(FindFirstResolves(i))
    /\ SF_vars(UpdateAnalyzing(i))
    /\ SF_vars(CreateResult(i))
    /\ SF_vars(UpdateDone(i))
    /\ SF_vars(UpdateFailed(i))

SpecRunnerStarted ==
  /\ Init
  /\ [][NextRunnerStarted]_vars
  /\ WF_vars(Start)
  /\ WF_vars(TimerPoll)
  /\ AwaitsSettle
  /\ DatabaseRecovers

scored == pc = "mandatory"

\* C1: after calculateScores every category satisfies 0 <= earned <= max
\* (30, 25, 20, 10, 10) and scores.overall <= 95, for every evidence
\* combination and every repo type.
C1_ScoresWithinBounds ==
  scored =>
    /\ 0 <= scores.security /\ scores.security <= SecurityMax
    /\ 0 <= scores.codeQuality /\ scores.codeQuality <= CodeQualityMax
    /\ 0 <= scores.testing /\ scores.testing <= TestingMax
    /\ 0 <= scores.dependencies /\ scores.dependencies <= DependenciesMax
    /\ 0 <= scores.hygiene /\ scores.hygiene <= HygieneMax
    /\ scores.overall <= MaxOverall

\* C1 witness: the full lint rubric plus the TypeScript bonus met the category
\* maximum, and every category is at its maximum (overall at the cap).
C1_Witness ==
  /\ scored
  /\ stack.hasTypeScript /\ codeQuality.analyzed /\ stack.hasESLint
  /\ scores.codeQuality = CodeQualityMax
  /\ scores.security = SecurityMax /\ scores.testing = TestingMax
  /\ scores.dependencies = DependenciesMax /\ scores.hygiene = HygieneMax
  /\ scores.overall = MaxOverall

\* the multiplier as the exact fraction it stands for
ExactMultiplier(m) ==
  IF m = Double100 THEN << 1, 1 >>
  ELSE IF m = Double085 THEN << 17, 20 >>
  ELSE << 7, 10 >>

\* n * q rounded to the nearest integer, halves up, in exact arithmetic
RoundHalfUp(n, q) == (2 * n * q[1] + q[2]) \div (2 * q[2])

\* C2: scores.overall = min(95, round(rawTotal x multiplier)), rounding to the
\* nearest integer with halves up.
C2_OverallIsRoundedProduct ==
  (pc \in {"mandatory", "actions"} \/ success) =>
    /\ scores.rawTotal = scores.security + scores.codeQuality + scores.testing
                         + scores.dependencies + scores.hygiene
    /\ scores.overall =
         Min(95, RoundHalfUp(scores.rawTotal,
                             ExactMultiplier(scores.confidenceMultiplier)))

\* the counts the hard cap is stated on: production-only for library,
\* framework and cli, all dependencies otherwise
CapCounts ==
  IF repoType \in {"library", "framework", "cli"}
    THEN security.productionVulns ELSE security.vulnerabilities

\* C3: when the audit ran, an effective critical count >= 1 caps security at
\* 10, and an effective high count >= 1 with no critical caps it at 20.
C3_SecurityHardCap ==
  (scored /\ security.analyzed) =>
    /\ CapCounts.critical >= 1 => scores.security <= 10
    /\ (CapCounts.critical = 0 /\ CapCounts.high >= 1) => scores.security <= 20

\* C3 witness: a critical finding with no high and no moderate one, where the
\* points earned (15) exceed the cap and security ends at exactly 10.
C3_Witness ==
  /\ scored /\ security.analyzed
  /\ CapCounts.critical >= 1 /\ CapCounts.high = 0 /\ CapCounts.moderate = 0
  /\ scores.security = 10

\* how many of the three collectors ended with analyzed = true
AnalyzedCount ==
  Cardinality({c \in {"security", "codeQuality", "dependencies"} :
     CASE c = "security" -> security.analyzed
       [] c = "codeQuality" -> codeQuality.analyzed
       [] c = "dependencies" -> dependencies.analyzed})

\* C4: 3 analyzed collectors give HIGH x1.0, 2 give MEDIUM x0.85, 1 or 0 give
\* LOW x0.7; no other pair is produced.
C4_ConfidenceFromCoverage ==
  scored =>
    /\ AnalyzedCount = 3 =>
         analysisConfidence = "HIGH" /\ scores.confidenceMultiplier = Double100
    /\ AnalyzedCount = 2 =>
         analysisConfidence = "MEDIUM" /\ scores.confidenceMultiplier = Double085
    /\ AnalyzedCount <= 1 =>
         analysisConfidence = "LOW" /\ scores.confidenceMultiplier = Double070

\* C4 witness: exactly one collector ran and the run was scored LOW.
C4_Witness ==
  scored /\ AnalyzedCount = 1 /\ analysisConfidence = "LOW"

\* C5: a completed analysis (success = true) has a non-empty suggestions list.
C5_SuggestionsNonEmpty == success => suggestions # << >>

\* C5 witness: a completed run in which no evidence produced a suggestion and
\* the list holds only the synthesized documentation suggestion.
C5_Witness ==
  /\ success
  /\ suggestions =
       << Suggestion("low", "general", "Consider adding more documentation") >>

\* C6: a completed analysis has a non-empty priorityActions list.
C6_PriorityActionsNonEmpty == success => priorityActions # << >>

\* C6 witness: a completed run with none of the five concerns, whose only
\* action is the fallback.
C6_Witness ==
  /\ success
  /\ security.vulnerabilities.critical = 0 /\ security.vulnerabilities.high = 0
  /\ stack.hasTests /\ stack.hasESLint /\ dependencies.outdated <= 5
  /\ priorityActions = << Action(1, "Maintain regular updates") >>

\* C7: in the final suggestions list of a completed analysis no two
\* suggestions map to the same topic keyword group.
C7_OneSuggestionPerTopic ==
  success =>
    \A i, j \in 1..Len(suggestions) :
      (i # j /\ getTopic(suggestions[i].title) \in TopicKeys)
        => getTopic(suggestions[i].title) # getTopic(suggestions[j].title)

\* C8: the final suggestions list of a completed analysis is sorted by priority
\* rank critical, high, medium, low, info.
C8_SortedByPriority ==
  success =>
    \A i, j \in 1..Len(suggestions) :
      i < j => priorityOrder[suggestions[i].priority]
                 <= priorityOrder[suggestions[j].priority]

\* C9: detectRepoType returns 'cli' for every manifest with a bin field,
\* whatever its other fields.
C9_BinMeansCli ==
  (pc = "classified" /\ pkg.bin # "") => repoType = "cli"

\* C9 witness: a manifest with bin that also satisfies the library rule (main,
\* a bundler build) and declares workspaces is classified cli.
C9_Witness ==
  /\ pc = "classified"
  /\ pkg.bin # "" /\ pkg.main # "" /\ pkg.workspaces # ""
  /\ Includes(pkg.scripts.build, "rollup") /\ pkg.scripts.start = ""
  /\ repoType = "cli"

\* C10: within one run the repo type, once assigned by the classifier, never
\* changes afterwards, also when the repository has several manifests.
C10_RepoTypeAssignedOnce == [][classified => repoType' = repoType]_vars

C12_WorkingCopyReleased == pc = "done" => ~ repoDir

\* a tool run that did not deliver a usable output: the exec rejected (timeout,
\* spawn failure), or stdout was empty, unparsable or of another structure
toolFailed(o) == o.kind # "ok"

\* the audit failed when its full audit did, or its second exec rejected
auditFailed(run) == toolFailed(run[1]) \/ run[2].kind = "throw"

\* one step of a collector: the run goes on to the next stage without an error
\* and, if the tool failed, the collector's evidence is not analyzed
CollectorStep ==
  /\ pc = "audit" =>
       /\ pc' = "outdated" /\ error' = "null"
       /\ \A run \in AuditRuns(Head(manifests)) :
            (auditFailed(run)
               /\ security' = runSecurityAudit(security, run[1], run[2]))
              => ~ security'.analyzed
  /\ pc = "outdated" =>
       /\ pc' = "eslint" /\ error' = "null"
       /\ \A o \in OutdatedRuns(Head(manifests)) :
            (toolFailed(o) /\ dependencies' = checkOutdatedPackages(dependencies, o))
              => ~ dependencies'.analyzed
  /\ pc = "eslint" =>
       /\ pc' \in {"manifest", "tsc"} /\ error' = "null"
       /\ \A o \in LintRuns(Head(manifests)) :
            (toolFailed(o) /\ codeQuality' = runESLint(codeQuality, o))
              => ~ codeQuality'.analyzed
  /\ pc = "tsc" =>
       /\ pc' = "structure" /\ error' = "null"
       /\ (stack.hasTypeScript /\ typescript' = typescript /\ suggestions' = suggestions)
            => ~ typescript'.analyzed

\* C13: a failure of a single collector (audit, outdated check, lint,
\* type-check) never aborts the run: the following collectors and stages still
\* run, the failed collector's evidence has analyzed = false, and the run
\* returns with success = true.
C13_CollectorFailureContained ==
  /\ [][CollectorStep]_vars
  /\ [](pc \in {"structure", "score", "mandatory", "actions"} => error = "null")
  /\ []((pc = "done" /\ error = "null") => success)

\* C14: when git clone fails or times out the run returns success = false and
\* a non-null error, with no evidence populated (security, dependencies and
\* codeQuality not analyzed, zero counts) and no scoring or recommendation
\* step run (suggestions and priorityActions empty, no verdict).
C14_CloneFailureIsFatal ==
  (error = "clone failed") =>
    /\ ~ success /\ error # "null"
    /\ pc \in {"cleanup", "done"}
    /\ security = InitSecurity
    /\ dependencies = InitDependencies
    /\ codeQuality = InitCodeQuality
    /\ typescript = InitTypescript
    /\ scores = InitScores /\ verdict = "undefined"
    /\ suggestions = << >> /\ priorityActions = << >>

\* C14 witness: a run whose clone failed has returned, its partial directory
\* removed.
C14_Witness ==
  pc = "done" /\ error = "clone failed" /\ ~ success /\ ~ repoDir

\* C15: a repository job whose clone fails ends FAILED with no analysis result
\* stored for it, and every job that ends DONE carries a report produced by a
\* completed analysis.
C15_FailedCloneMeansFailedJob ==
  \A p \in ProjectIds :
    /\ \A k \in 1..Len(analysisResults[p]) : analysisResults[p][k].success
    /\ projects[p] = "DONE" =>
         \E k \in 1..Len(analysisResults[p]) : analysisResults[p][k].success

\* C17: currentJobs never exceeds MAX_CONCURRENT, under any interleaving of
\* polls, also when a poll fires while an earlier one awaits its query or the
\* status update of the job it picked.
C17_AtMostMaxConcurrent == currentJobs <= MAX_CONCURRENT

\* the stages of a run in their order; the per-manifest loop is one stage
StageRank(at) ==
  CASE at = "clone" -> 0
    [] at = "discover" -> 1
    [] at \in {"nonNode", "manifest", "install", "audit", "outdated", "eslint"} -> 2
    [] at = "tsc" -> 3
    [] at = "structure" -> 4
    [] at = "score" -> 5
    [] at = "mandatory" -> 6
    [] at = "actions" -> 7
    [] at = "cleanup" -> 8
    [] at = "done" -> 9

\* one step of a run respects the stage order
StageOrder ==
  /\ StageRank(pc') >= StageRank(pc)
  /\ manifests' # manifests => (pc = "discover" \/ manifests' = Tail(manifests))
  /\ pc' = "install" => (pc = "manifest" /\ manifests' = manifests)
  /\ pc' = "audit" => (pc = "install" /\ manifests' = manifests)
  /\ pc' = "outdated" => (pc = "audit" /\ manifests' = manifests)
  /\ pc' = "eslint" => (pc = "outdated" /\ manifests' = manifests)
  /\ NpmInstallFail => (pc' \in {"manifest", "tsc"} /\ manifests' = Tail(manifests))
  /\ (classified' # classified \/ repoType' # repoType) => pc = "manifest"
  /\ pc' = "score" => pc = "structure"
  /\ (scores' # scores \/ verdict' # verdict) => (pc = "score" /\ pc' = "mandatory")
  /\ pc' = "actions" => pc = "mandatory"
  /\ priorityActions' # priorityActions => pc = "actions"

\* C16: within one run the stages occur in a fixed order: manifest discovery
\* before any install; per manifest the install before its audit, outdated
\* check and lint, which run only if the install succeeded; classification
\* before scoring; scoring before deduplication, mandatory suggestions and
\* priority actions.
C16_StagesInOrder == [][StageOrder]_vars

\* C16 witness: a completed run that was classified, whose install succeeded
\* and whose three collectors ran, then scored and synthesized.
C16_Witness ==
  /\ pc = "done" /\ success /\ classified
  /\ security.analyzed /\ dependencies.analyzed /\ codeQuality.analyzed
  /\ verdict # "undefined" /\ priorityActions # << >>

\* the evidence of the first scenario: an application with a clean audit, a
\* configured and clean lint run, tests, up-to-date dependencies, README,
\* LICENSE and CI config, no env-example file and no standard folder layout
CleanApplication ==
  /\ repoType = "application"
  /\ security.analyzed /\ security.vulnerabilities = NoVulns
  /\ stack.hasESLint /\ codeQuality.analyzed
  /\ codeQuality.eslintErrors = 0 /\ codeQuality.eslintWarnings = 0
  /\ stack.hasTests
  /\ dependencies.analyzed /\ dependencies.outdated = 0
  /\ stack.hasReadme /\ stack.hasLicense /\ stack.hasCICD
  /\ ~ stack.hasEnvExample /\ ~ stack.hasProperStructure

\* C18: for that evidence the scores are security 30, codeQuality 25,
\* testing 15 (CI counted in hygiene only), dependencies 10, hygiene 6,
\* confidence HIGH and overall = min(95, sum x 1.0).
C18_CleanApplicationScores ==
  (CleanApplication /\ verdict # "undefined") =>
    /\ scores.security = 30
    /\ scores.codeQuality = 25
    /\ scores.testing = 15
    /\ scores.dependencies = 10
    /\ scores.hygiene = 6
    /\ analysisConfidence = "HIGH"
    /\ scores.overall = Min(95, scores.security + scores.codeQuality + scores.testing
                                  + scores.dependencies + scores.hygiene)

\* the critical-priority suggestion for n critical findings
FixCritical(n) ==
  Suggestion("critical", "security",
             "Fix " \o ToString(n) \o " critical vulnerabilities")

\* C19: whenever the audit ran and reports at least one critical vulnerability
\* in the effective scope, the verdict is the security hard-floor verdict
\* ('Not Production Ready' for application-like types, 'Security Issues' for
\* library-like types) whatever the other categories and overall, and the
\* final suggestions contain the critical suggestion 'Fix N critical
\* vulnerabilities'.
C19_CriticalForcesVerdict ==
  (success /\ security.analyzed /\ CapCounts.critical >= 1) =>
    /\ verdict = IF repoType \in {"library", "framework", "cli"}
                   THEN "Security Issues" ELSE "Not Production Ready"
    /\ \E k \in 1..Len(suggestions) :
         suggestions[k] = FixCritical(CapCounts.critical)

\* C19 witness: 2 critical + 3 high findings in an application that is clean
\* otherwise (overall in the 'Acceptable' band) still ends 'Not Production
\* Ready', with the critical suggestion present.
C19_Witness ==
  /\ success /\ repoType = "application"
  /\ security.analyzed /\ security.vulnerabilities = Vulns(2, 3, 0, 0)
  /\ scores.security <= 10 /\ scores.testing = TestingMax
  /\ scores.codeQuality = CodeQualityMax /\ scores.overall >= 55
  /\ verdict = "Not Production Ready"
  /\ \E k \in 1..Len(suggestions) : suggestions[k] = FixCritical(2)

\* the security details hold the note on n devDependency findings
HasDevDependencyNote(n) ==
  \E k \in 1..Len(scoreDetails.security) :
     scoreDetails.security[k] = DevDependencyNote(n)

\* the audit ran and found vulnerabilities, none in production dependencies
DevOnlyFindings ==
  /\ security.analyzed
  /\ security.vulnerabilities.total > 0
  /\ security.productionVulns = NoVulns

\* C20: with vulnerabilities only in devDependencies, a library, framework or
\* cli is scored on the production-only figures and earns the full 30 points,
\* and its security details disclose the devDependency findings in a note
\* that earns nothing; an application with the same evidence is scored on
\* the all-dependency figures.
C20_DevOnlyFindings ==
  (DevOnlyFindings /\ scoreDetails # Undefined) =>
    IF repoType \in {"library", "framework", "cli"}
      THEN /\ scores.security = SecurityMax
           /\ HasDevDependencyNote(security.vulnerabilities.total)
      ELSE /\ scores.security < SecurityMax
           /\ scores.security <=
                (IF security.vulnerabilities.critical = 0 THEN 10 ELSE 0)
                + (IF security.vulnerabilities.high = 0 THEN 10 ELSE 0) + 5
           /\ ~ HasDevDependencyNote(security.vulnerabilities.total)

\* C20 witness: a completed run on a library whose 5 findings are all in
\* devDependencies, scored 30 with the note.
C20_Witness ==
  /\ success /\ repoType = "library"
  /\ security.vulnerabilities = Vulns(2, 3, 0, 0)
  /\ security.productionVulns = NoVulns
  /\ scores.security = SecurityMax
  /\ HasDevDependencyNote(5)

\* the verdict ladder of an application-like type
ApplicationBand(overall) ==
  IF overall >= 85 THEN "Excellent"
  ELSE IF overall >= 70 THEN "Production Ready"
  ELSE IF overall >= 55 THEN "Acceptable"
  ELSE IF overall >= 40 THEN "Developing"
  ELSE IF overall >= 25 THEN "Needs Work"
  ELSE "Beginner Level"

\* the verdict ladder of a library-like type
LibraryBand(overall) ==
  IF overall >= 85 THEN "Excellent Library"
  ELSE IF overall >= 70 THEN "Production-Grade"
  ELSE IF overall >= 55 THEN "Good Library"
  ELSE IF overall >= 40 THEN "Functional Library"
  ELSE "Needs Attention"

unusableOutput(o) == o.kind \in {"empty", "malformed", "nometa"}

\* a collector run on the first manifest of a run, whose evidence is still as
\* constructed, with unusable tool output leaves that evidence not analyzed
UnusableOutputStep ==
  /\ (pc = "audit" /\ security = InitSecurity) =>
       \A run \in AuditRuns(Head(manifests)) :
         (unusableOutput(run[1])
            /\ security' = runSecurityAudit(security, run[1], run[2]))
           => ~ security'.analyzed
  /\ (pc = "outdated" /\ dependencies = InitDependencies) =>
       \A o \in OutdatedRuns(Head(manifests)) :
         (unusableOutput(o)
            /\ dependencies' = checkOutdatedPackages(dependencies, o))
           => ~ dependencies'.analyzed
  /\ (pc = "eslint" /\ codeQuality = InitCodeQuality) =>
       \A o \in LintRuns(Head(manifests)) :
         (unusableOutput(o) /\ codeQuality' = runESLint(codeQuality, o))
           => ~ codeQuality'.analyzed

\* C22: for the audit, the outdated-dependency check and the lint run on a
\* single manifest, empty or malformed tool output leaves the collector's
\* evidence with analyzed = false; an empty output is never recorded as an
\* analyzed result with a count of zero.
C22_UnusableOutputNotAnalyzed == [][UnusableOutputStep]_vars

\* C23: whenever the security, dependency or code-quality collector did not
\* run successfully (analyzed = false) its category receives its fixed floor,
\* security 5, dependencies 2, codeQuality 5 (plus the 3-point type-checking
\* bonus when it applies), for every repo type and with or without a lint
\* configuration; a failed collector never yields 0.
C23_NotAnalyzedFloors ==
  scored =>
    /\ ~ security.analyzed => scores.security = 5
    /\ ~ dependencies.analyzed => scores.dependencies = 2
    /\ ~ codeQuality.analyzed =>
         scores.codeQuality = 5 + (IF stack.hasTypeScript THEN 3 ELSE 0)

\* the points of the full lint rubric: configuration 5, completed run 5,
\* errors 10 / 5 / 0, warnings 5 / 2 / 0
LintRubric ==
    (IF stack.hasESLint THEN 5 ELSE 0) + 5
  + (IF codeQuality.eslintErrors = 0 THEN 10
     ELSE IF codeQuality.eslintErrors <= 5 THEN 5 ELSE 0)
  + (IF codeQuality.eslintWarnings <= 10 THEN 5
     ELSE IF codeQuality.eslintWarnings <= 25 THEN 2 ELSE 0)

\* C24: a library, framework or cli with its own lint configuration earns
\* exactly 15 for code quality, 18 with type-checking in use, whatever the
\* lint error and warning counts and whether or not the lint run succeeded;
\* every other target is scored on the full rubric and the 3-point
\* type-checking bonus never raises codeQuality above 25.
C24_LibraryLintCredit ==
  scored =>
    IF repoType \in {"library", "framework", "cli"} /\ stack.hasESLint
      THEN scores.codeQuality = (IF stack.hasTypeScript THEN 18 ELSE 15)
      ELSE /\ scores.codeQuality <= 25
           /\ codeQuality.analyzed =>
                scores.codeQuality =
                  (IF stack.hasTypeScript /\ LintRubric + 3 <= 25
                     THEN LintRubric + 3
                   ELSE IF stack.hasTypeScript THEN 25 ELSE LintRubric)

\* C24 witness: a typed library with a lint configuration whose lint run
\* found 6 errors and 26 warnings is scored 18.
C24_Witness ==
  /\ scored /\ repoType = "library"
  /\ stack.hasESLint /\ stack.hasTypeScript
  /\ codeQuality.analyzed
  /\ codeQuality.eslintErrors = 6 /\ codeQuality.eslintWarnings = 26
  /\ scores.codeQuality = 18

\* the scripts of a manifest that start an application
AppBootstrap(p) ==
  \/ \E sig \in {"node server", "node app", "node src/index", "next",
                 "react-scripts"} : Includes(p.scripts.start, sig)
  \/ Includes(p.scripts.dev, "next")

\* the manifest is built for publication
BuiltForPublication(p) ==
  \/ \E tool \in {"rollup", "tsc", "webpack"} : Includes(p.scripts.build, tool)
  \/ p.scripts.prepublish # "" \/ p.scripts.prepublishOnly # ""

\* the decision order for a manifest without a bin field
DecisionWithoutBin(p) ==
  IF /\ (p.main # "" \/ p.module # "" \/ p.exports # "")
     /\ ~ AppBootstrap(p)
     /\ BuiltForPublication(p)
    THEN IF (\E kw \in frameworkKeywords : Includes(toLowerCase(p.name), kw))
            /\ p.main # ""
           THEN "framework" ELSE "library"
  ELSE IF p.workspaces # "" \/ (p.private /\ p.main = "")
    THEN "monorepo"
  ELSE "application"

\* C25: for a manifest without bin, detectRepoType answers 'framework' or
\* 'library' when the library rule holds (entry point, no app-bootstrap
\* script, a bundler build or a prepublish hook), also with workspaces
\* declared; otherwise 'monorepo' when workspaces is declared or the package
\* is private without main; otherwise 'application'.
C25_DecisionOrder ==
  (pc = "classified" /\ pkg.bin = "") => repoType = DecisionWithoutBin(pkg)

\* the list of priority actions holds the action a
HasAction(a) == \E k \in 1..Len(priorityActions) : priorityActions[k] = a

\* the fallback action
MaintainUpdates == Action(1, "Maintain regular updates")

\* C26: priorityActions is ordered by strictly increasing priority number with
\* at most one action per concern, in the precedence critical vulnerabilities
\* (1), high vulnerabilities (2), missing tests (3), missing linting (4), more
\* than 5 outdated dependencies (5); the fallback 'Maintain regular updates'
\* is present exactly when none of the five conditions holds and is then the
\* only action.
C26_PriorityActionsOrdered ==
  success =>
    /\ \A i, j \in 1..Len(priorityActions) :
         i < j => priorityActions[i].priority < priorityActions[j].priority
    /\ HasAction(Action(1, "Fix critical security vulnerabilities"))
         <=> security.vulnerabilities.critical > 0
    /\ HasAction(Action(2, "Fix high severity vulnerabilities"))
         <=> security.vulnerabilities.high > 0
    /\ HasAction(Action(3, "Add automated tests")) <=> ~ stack.hasTests
    /\ HasAction(Action(4, "Add code linting")) <=> ~ stack.hasESLint
    /\ HasAction(Action(5, "Update outdated packages"))
         <=> dependencies.outdated > 5
    /\ HasAction(MaintainUpdates)
         <=> /\ security.vulnerabilities.critical = 0
             /\ security.vulnerabilities.high = 0
             /\ stack.hasTests /\ stack.hasESLint
             /\ dependencies.outdated <= 5
    /\ HasAction(MaintainUpdates) => priorityActions = << MaintainUpdates >>
    /\ \A k \in 1..Len(priorityActions) :
         priorityActions[k].priority \in 1..5

\* C26 witness: a run in which all five concerns apply (2 critical and 3 high
\* findings, no tests, no linter, 11 outdated packages) lists the five
\* actions 1..5 in order.
C26_Witness ==
  /\ success
  /\ security.vulnerabilities.critical > 0 /\ security.vulnerabilities.high > 0
  /\ ~ stack.hasTests /\ ~ stack.hasESLint /\ dependencies.outdated > 5
  /\ Len(priorityActions) = 5
  /\ \A k \in 1..5 : priorityActions[k].priority = k

\* an application-like repo type was scored zero for testing
ZeroTestingApplication ==
  /\ scored
  /\ repoType \notin {"library", "framework", "cli"}
  /\ scores.testing = 0

\* C27: for application-like repo types a testing score of zero forces the
\* verdict label 'Not Interview Ready' regardless of the overall score and of
\* the other categories.
C27_ZeroTestingForcesVerdict ==
  ZeroTestingApplication => verdict = "Not Interview Ready"

\* C27, amended: for application-like repo types a testing score of zero
\* forces 'Not Interview Ready' regardless of the overall score whenever the
\* security score is at least 15; below 15 the security blocker is tested
\* first and the label is 'Not Production Ready'.
C27_ZeroTestingAfterSecurity ==
  ZeroTestingApplication =>
    verdict = IF scores.security < 15 THEN "Not Production Ready"
              ELSE "Not Interview Ready"

\* C27 witness: an application without tests whose other categories put
\* overall in the 'Production Ready' band is labelled 'Not Interview Ready'.
C27_Witness ==
  /\ ZeroTestingApplication
  /\ repoType = "application"
  /\ scores.security >= 15 /\ scores.overall >= 70
  /\ verdict = "Not Interview Ready"

\* the status changes of a project's life cycle
StatusMoves ==
  { <<"NONE", "PENDING">>, <<"PENDING", "ANALYZING">>,
    <<"ANALYZING", "DONE">>, <<"ANALYZING", "FAILED">> }

\* every status change in a step is one of the life cycle
StatusStep ==
  \A p \in ProjectIds :
    projects'[p] # projects[p] => <<projects[p], projects'[p]>> \in StatusMoves

\* the calls of poll() that are processing project p
JobsOn(p) == {i \in PollSlots : pollCalls[i].at # "idle" /\ pollCalls[i].project = p}

\* C28: a project's status only moves PENDING -> ANALYZING -> DONE or FAILED;
\* under every interleaving of polls a project that was picked is never
\* picked again, so it is analysed by at most one job, gets at most one stored
\* analysis result, and a DONE or FAILED status is never overwritten.
C28_OneJobPerProject ==
  /\ [][StatusStep]_vars
  /\ [](\A p \in ProjectIds :
          /\ Cardinality(JobsOn(p)) <= 1
          /\ Len(analysisResults[p]) <= 1)

\* C29: while the job runner stays started, every PENDING project is
\* eventually picked by a poll, every project moved to ANALYZING eventually
\* reaches DONE or FAILED, and the job's slot is released afterwards; no
\* project stays PENDING or ANALYZING forever.
C29_EveryProjectFinishes ==
  /\ \A p \in ProjectIds :
       (projects[p] = "PENDING") ~> (projects[p] # "PENDING")
  /\ \A p \in ProjectIds :
       (projects[p] = "ANALYZING") ~> (projects[p] \in {"DONE", "FAILED"})
  /\ \A i \in PollSlots :
       (pollCalls[i].at # "idle") ~> (pollCalls[i].at = "idle")

\* a step that starts an analysis: some project goes from PENDING to ANALYZING
AnalysisStarts ==
  \E p \in ProjectIds : projects[p] = "PENDING" /\ projects'[p] = "ANALYZING"

\* C30: after stop() has returned the job runner starts no new analysis: no
\* project is moved from PENDING to ANALYZING while the runner is stopped,
\* also not by a poll that was awaiting its database query when stop() was
\* called; jobs already running are left to finish.
C30_NoAnalysisAfterStop == [][~ isRunning => ~ AnalysisStarts]_vars

====
